---- MODULE Spec2Model ----
(***************************************************************************)
(* Model of src/Python/database.py: a SQLite persistence layer with four   *)
(* tables (users, exercises, grades, user_progress), used through one      *)
(* connection opened by create_connection (foreign keys enforced, Python's *)
(* implicit BEGIN before a data-modifying statement, explicit commit, no   *)
(* rollback anywhere in the module).                                       *)
(*                                                                         *)
(* Values.  An optional argument is <<>> (Python None) or <<v>>.  Grades   *)
(* are integers; an average is an exact fraction [num, den] in lowest      *)
(* terms.  Timestamps are the integer number of seconds of the clock.      *)
(*                                                                         *)
(* Each handler is an operator from a connection and its arguments to the  *)
(* connection afterwards and whether an sqlite3.Error was caught; each     *)
(* Call action applies one handler.  A behaviour makes at most MaxCalls    *)
(* calls.                                                                  *)
(***************************************************************************)
EXTENDS Integers, Sequences, FiniteSets, TLC

\* ---------------------------------------------------------------- bounds
MaxUsers == 2
MaxExercises == 2
MaxGrades == 3
MaxTime == 1
MaxCalls == 6

UserIds == 1..MaxUsers
ExerciseIds == 1..MaxExercises
GradeIds == 1..MaxGrades
Times == 0..MaxTime

None == <<>>
Some(v) == <<v>>

\* argument values the operations are called with (the names and grades of
\* the demonstration block, lines 416-421)
UserNames == {None, Some("John")}
NewUserNames == {None, Some("Jane")}
ExerciseNames == {None, Some("Test")}
ExerciseDescriptions == {Some("Testing insertion")}
NewExerciseNames == {None, Some(""), Some("Scale")}
NewExerciseDescriptions == {None, Some("Sing a scale")}
DemoGrades == <<59, 54, 87, 45>>
\* the grade the k-th add_grade call is made with, or None
GradeValues(k) == {None, Some(DemoGrades[((k - 1) % 4) + 1])}
NewGradeValues == {None, Some(70)}

\* ------------------------------------------------------------ arithmetic
RECURSIVE Gcd(_, _)
Gcd(a, b) == IF b = 0 THEN a ELSE Gcd(b, a % b)

\* the fraction n/d (d > 0, n >= 0) in lowest terms
Frac(n, d) == LET g == Gcd(n, d) IN [num |-> n \div g, den |-> d \div g]

\* (avg * k + x) / m for a fraction avg and integers k, x, m
MulAddDiv(avg, k, x, m) == Frac(avg.num * k + x * avg.den, avg.den * m)

RECURSIVE SumSeq(_)
SumSeq(s) == IF s = <<>> THEN 0 ELSE Head(s) + SumSeq(Tail(s))

RECURSIVE SumGrades(_)
SumGrades(rows) ==
    IF rows = {} THEN 0
    ELSE LET r == CHOOSE x \in rows : TRUE IN r.grade + SumGrades(rows \ {r})

\* ---------------------------------------------------------------- schema
\* the pragma left out: SQLite's default, foreign keys not enforced
foreign_keys_off == FALSE

\* create_connection: PRAGMA foreign_keys = ON
foreign_keys == TRUE

\* create_tables: the four empty tables and the AUTOINCREMENT counters
create_tables ==
    [users |-> {}, exercises |-> {}, grades |-> {}, user_progress |-> {},
     seq |-> [users |-> 0, exercises |-> 0, grades |-> 0]]

\* the tables an SQL statement can name
TableNames == {"users", "exercises", "grades", "user_progress"}

\* FOREIGN KEY (user_id) REFERENCES users(id),
\* FOREIGN KEY (exercise_id) REFERENCES exercises(id): a child row may be
\* inserted only when both parents exist
ChildInsertAllowed(d, user_id, exercise_id) ==
    foreign_keys =>
        /\ \E u \in d.users : u.id = user_id
        /\ \E e \in d.exercises : e.id = exercise_id

\* the users row guarded by the foreign key of grades alone
UserDeleteAllowed_grades_only(d, user_id) ==
    foreign_keys => ~ \E g \in d.grades : g.user_id = user_id

\* a users row may be deleted only when no grades or user_progress row
\* references it
UserDeleteAllowed(d, user_id) ==
    foreign_keys =>
        /\ ~ \E g \in d.grades : g.user_id = user_id
        /\ ~ \E p \in d.user_progress : p.user_id = user_id

ExerciseDeleteAllowed(d, exercise_id) ==
    foreign_keys =>
        /\ ~ \E g \in d.grades : g.exercise_id = exercise_id
        /\ ~ \E p \in d.user_progress : p.exercise_id = exercise_id

\* the table declared without the primary key
ProgressKeyFree_undeclared(d, user_id, exercise_id) == TRUE

\* PRIMARY KEY (user_id, exercise_id): a user_progress row may be inserted
\* only when the pair has none
ProgressKeyFree(d, user_id, exercise_id) ==
    ~ \E p \in d.user_progress : p.user_id = user_id /\ p.exercise_id = exercise_id

\* ------------------------------------------------------------ connection
\* A connection is [db, disk, in_transaction]: db is what statements on the
\* connection read and write, disk is what has been committed.
Begin(c) == [c EXCEPT !.in_transaction = TRUE]

Commit(c) == [c EXCEPT !.disk = c.db, !.in_transaction = FALSE]

\* a data-modifying statement that ran: implicit BEGIN, then the new view
Execute(c, d) == [Begin(c) EXCEPT !.db = d]

Ok(c) == [c |-> c, err |-> FALSE]
Error(c) == [c |-> c, err |-> TRUE]

create_connection == [db |-> create_tables, disk |-> create_tables, in_transaction |-> FALSE]

\* ------------------------------------------------------------- insertion
\* (the created_at column is written here and read by no operation other than
\* get_users' SELECT *; the model leaves it out of the users rows)
add_user(c, name) ==
    IF name = None
    THEN Error(Begin(c))                     \* NOT NULL constraint failed
    ELSE LET id == c.db.seq.users + 1
             d == [c.db EXCEPT !.users = @ \cup {[id |-> id, name |-> name[1]]},
                               !.seq.users = id]
         IN Ok(Commit(Execute(c, d)))

add_exercise(c, name, description) ==
    IF name = None \/ description = None
    THEN Error(Begin(c))
    ELSE LET id == c.db.seq.exercises + 1
             d == [c.db EXCEPT !.exercises = @ \cup {[id |-> id, name |-> name[1], description |-> description[1]]},
                               !.seq.exercises = id]
         IN Ok(Commit(Execute(c, d)))

\* calculate_progress without the weight of the old average:
\* (old_average_grade + new_grade) / new_attempts
calculate_progress_unweighted(progress, new_grade) ==
    LET old == IF progress = None
               THEN [average_grade |-> Frac(0, 1), attempt_count |-> 0]
               ELSE progress[1]
        new_attempts == old.attempt_count + 1
    IN [average_grade |-> MulAddDiv(old.average_grade, 1, new_grade, new_attempts),
        attempt_count |-> new_attempts]

\* calculate_progress whose default for an absent row is (0, 1)
calculate_progress_default_one(progress, new_grade) ==
    LET old == IF progress = None
               THEN [average_grade |-> Frac(0, 1), attempt_count |-> 1]
               ELSE progress[1]
        new_attempts == old.attempt_count + 1
        new_average == MulAddDiv(old.average_grade, old.attempt_count, new_grade, new_attempts)
    IN [average_grade |-> new_average, attempt_count |-> new_attempts]

\* calculate_progress: progress is None or <<[average_grade, attempt_count]>>
calculate_progress(progress, new_grade) ==
    LET old == IF progress = None
               THEN [average_grade |-> Frac(0, 1), attempt_count |-> 0]
               ELSE progress[1]
        new_attempts == old.attempt_count + 1
        new_average == MulAddDiv(old.average_grade, old.attempt_count, new_grade, new_attempts)
    IN [average_grade |-> new_average, attempt_count |-> new_attempts]

\* SELECT average_grade, attempt_count FROM user_progress WHERE user_id = ?
\* AND exercise_id = ?; fetchone()
SelectProgress(d, user_id, exercise_id) ==
    LET rows == {p \in d.user_progress : p.user_id = user_id /\ p.exercise_id = exercise_id}
    IN IF rows = {} THEN None
       ELSE LET p == CHOOSE x \in rows : TRUE
            IN Some([average_grade |-> p.average_grade, attempt_count |-> p.attempt_count])

\* update_user_progression whose UPDATE sets average_grade and last_attempt
\* and leaves attempt_count as it was
update_user_progression_keep_count(c, user_id, exercise_id, new_grade, date) ==
    LET current_progress == SelectProgress(c.db, user_id, exercise_id)
        new == calculate_progress(current_progress, new_grade)
        row == [user_id |-> user_id, exercise_id |-> exercise_id,
                average_grade |-> new.average_grade, attempt_count |-> new.attempt_count,
                last_attempt |-> date]
    IN IF current_progress # None
       THEN LET kept == {p \in c.db.user_progress :
                            ~(p.user_id = user_id /\ p.exercise_id = exercise_id)}
                upd == [row EXCEPT !.attempt_count = current_progress[1].attempt_count]
            IN Ok(Commit(Execute(c, [c.db EXCEPT !.user_progress = kept \cup {upd}])))
       ELSE IF ChildInsertAllowed(c.db, user_id, exercise_id)
            THEN Ok(Commit(Execute(c, [c.db EXCEPT !.user_progress = @ \cup {row}])))
            ELSE Error(Begin(c))

\* lines 340-349 of update_user_progression: what is written from the row
\* current_progress that was read. The UPDATE of a pair that has no row
\* changes no row; the INSERT is subject to the foreign keys and to the
\* primary key.
WriteProgress(c, current_progress, user_id, exercise_id, new_grade, date) ==
    LET new == calculate_progress(current_progress, new_grade)
        row == [user_id |-> user_id, exercise_id |-> exercise_id,
                average_grade |-> new.average_grade, attempt_count |-> new.attempt_count,
                last_attempt |-> date]
        kept == {p \in c.db.user_progress :
                    ~(p.user_id = user_id /\ p.exercise_id = exercise_id)}
    IN IF current_progress # None
       THEN LET upd == IF kept = c.db.user_progress THEN {} ELSE {row}
            IN Ok(Commit(Execute(c, [c.db EXCEPT !.user_progress = kept \cup upd])))
       ELSE IF ChildInsertAllowed(c.db, user_id, exercise_id)
               /\ ProgressKeyFree(c.db, user_id, exercise_id)
            THEN Ok(Commit(Execute(c, [c.db EXCEPT !.user_progress = @ \cup {row}])))
            ELSE Error(Begin(c))     \* FOREIGN KEY / UNIQUE constraint failed

\* update_user_progression that INSERTs a row for every grade into a table
\* declared without the primary key
update_user_progression_insert_only(c, user_id, exercise_id, new_grade, date) ==
    LET current_progress == SelectProgress(c.db, user_id, exercise_id)
        new == calculate_progress(current_progress, new_grade)
        row == [user_id |-> user_id, exercise_id |-> exercise_id,
                average_grade |-> new.average_grade, attempt_count |-> new.attempt_count,
                last_attempt |-> date]
    IN IF ChildInsertAllowed(c.db, user_id, exercise_id)
       THEN Ok(Commit(Execute(c, [c.db EXCEPT !.user_progress = @ \cup {row}])))
       ELSE Error(Begin(c))

update_user_progression(c, user_id, exercise_id, new_grade, date) ==
    WriteProgress(c, SelectProgress(c.db, user_id, exercise_id),
                  user_id, exercise_id, new_grade, date)

\* lines 112-116 of add_grade with the commit left out
insert_grade_uncommitted(c, user_id, exercise_id, grade, date) ==
    IF grade = None \/ ~ChildInsertAllowed(c.db, user_id, exercise_id)
    THEN Error(Begin(c))
    ELSE LET id == c.db.seq.grades + 1
             d == [c.db EXCEPT !.grades = @ \cup {[id |-> id, user_id |-> user_id,
                                                   exercise_id |-> exercise_id,
                                                   grade |-> grade[1], time_attempt |-> date]},
                               !.seq.grades = id]
         IN Ok(Execute(c, d))

\* lines 112-116 of add_grade: the grade row is inserted and committed
insert_grade(c, user_id, exercise_id, grade, date) ==
    IF grade = None \/ ~ChildInsertAllowed(c.db, user_id, exercise_id)
    THEN Error(Begin(c))                     \* NOT NULL / FOREIGN KEY constraint failed
    ELSE LET id == c.db.seq.grades + 1
             d == [c.db EXCEPT !.grades = @ \cup {[id |-> id, user_id |-> user_id,
                                                   exercise_id |-> exercise_id,
                                                   grade |-> grade[1], time_attempt |-> date]},
                               !.seq.grades = id]
         IN Ok(Commit(Execute(c, d)))

\* date is the timestamp of the grade row, date2 the one taken afterwards by
\* update_user_progression
add_grade(c, user_id, exercise_id, grade, date, date2) ==
    LET r == insert_grade(c, user_id, exercise_id, grade, date)
    IN IF r.err THEN r
       ELSE update_user_progression(r.c, user_id, exercise_id, grade[1], date2)

\* -------------------------------------------------------------- deletion
\* remove_user that also deletes the user's progress rows
remove_user_cascade(c, user_id) ==
    LET d1 == [c.db EXCEPT !.grades = {g \in @ : g.user_id # user_id},
                           !.user_progress = {p \in @ : p.user_id # user_id}]
        d2 == [d1 EXCEPT !.users = {u \in @ : u.id # user_id}]
    IN Ok(Commit(Execute(c, d2)))

remove_user(c, user_id) ==
    LET d1 == [c.db EXCEPT !.grades = {g \in @ : g.user_id # user_id}]
        c1 == Execute(c, d1)
        exists == \E u \in d1.users : u.id = user_id
        d2 == [d1 EXCEPT !.users = {u \in @ : u.id # user_id}]
    IN IF exists /\ ~UserDeleteAllowed(d2, user_id)
       THEN Error(c1)                        \* FOREIGN KEY constraint failed
       ELSE Ok(Commit(Execute(c1, d2)))

\* remove_exercise without its first statement, the DELETE of the exercise's
\* grade rows
remove_exercise_keep_grades(c, exercise_id) ==
    LET exists == \E e \in c.db.exercises : e.id = exercise_id
        d2 == [c.db EXCEPT !.exercises = {e \in @ : e.id # exercise_id}]
    IN IF exists /\ ~ExerciseDeleteAllowed(d2, exercise_id)
       THEN Error(Begin(c))
       ELSE Ok(Commit(Execute(c, d2)))

remove_exercise(c, exercise_id) ==
    LET d1 == [c.db EXCEPT !.grades = {g \in @ : g.exercise_id # exercise_id}]
        c1 == Execute(c, d1)
        exists == \E e \in d1.exercises : e.id = exercise_id
        d2 == [d1 EXCEPT !.exercises = {e \in @ : e.id # exercise_id}]
    IN IF exists /\ ~ExerciseDeleteAllowed(d2, exercise_id)
       THEN Error(c1)
       ELSE Ok(Commit(Execute(c1, d2)))

\* remove_grade whose DELETE filters on user_id instead of id
remove_grade_by_user(c, grade_id) ==
    Ok(Commit(Execute(c, [c.db EXCEPT !.grades = {g \in @ : g.user_id # grade_id}])))

remove_grade(c, grade_id) ==
    Ok(Commit(Execute(c, [c.db EXCEPT !.grades = {g \in @ : g.id # grade_id}])))

\* remove_user_progress whose DELETE has no WHERE clause
remove_user_progress_all(c, user_id) ==
    Ok(Commit(Execute(c, [c.db EXCEPT !.user_progress = {}])))

remove_user_progress(c, user_id) ==
    Ok(Commit(Execute(c, [c.db EXCEPT !.user_progress = {p \in @ : p.user_id # user_id}])))

\* ---------------------------------------------------------------- update
update_user(c, name, user_id) ==
    IF name = None /\ \E u \in c.db.users : u.id = user_id
    THEN Error(Begin(c))                     \* NOT NULL constraint failed
    ELSE Ok(Commit(Execute(c, [c.db EXCEPT !.users =
            {IF u.id = user_id THEN [u EXCEPT !.name = name[1]] ELSE u : u \in @}])))

\* Python truthiness of an optional string: None and "" are false
Truthy(s) == s # None /\ s # Some("")

\* the table update_exercise's two UPDATE statements name
UpdateExerciseTable == "exercise"

\* UPDATE <table> SET <column> = ? WHERE id = ?, for the exercises columns;
\* a statement naming a table that does not exist fails when it is prepared,
\* before any transaction is begun
UpdateExerciseColumn(c, table, column, value, exercise_id) ==
    IF table \notin TableNames
    THEN Error(c)                            \* no such table
    ELSE Ok(Execute(c, [c.db EXCEPT !.exercises =
            {IF e.id = exercise_id THEN [e EXCEPT ![column] = value] ELSE e : e \in @}]))

\* update_exercise as one statement on the exercises table that sets both
\* columns, an argument not supplied written as ""
update_exercise_both(c, exercise_id, name, description) ==
    LET n == IF Truthy(name) THEN name[1] ELSE ""
        ds == IF Truthy(description) THEN description[1] ELSE ""
    IN IF Truthy(name) \/ Truthy(description)
       THEN Ok(Commit(Execute(c, [c.db EXCEPT !.exercises =
                {IF e.id = exercise_id THEN [e EXCEPT !.name = n, !.description = ds] ELSE e
                    : e \in @}])))
       ELSE Ok(Commit(c))

update_exercise(c, exercise_id, name, description) ==
    LET s1 == IF Truthy(name)
              THEN UpdateExerciseColumn(c, UpdateExerciseTable, "name", name[1], exercise_id)
              ELSE Ok(c)
        s2 == IF s1.err THEN s1
              ELSE IF Truthy(description)
                   THEN UpdateExerciseColumn(s1.c, UpdateExerciseTable, "description",
                                             description[1], exercise_id)
                   ELSE s1
    IN IF s2.err THEN s2 ELSE Ok(Commit(s2.c))

update_grades(c, grade_id, grade) ==
    IF grade = None /\ \E g \in c.db.grades : g.id = grade_id
    THEN Error(Begin(c))                     \* NOT NULL constraint failed
    ELSE Ok(Commit(Execute(c, [c.db EXCEPT !.grades =
            {IF g.id = grade_id THEN [g EXCEPT !.grade = grade[1]] ELSE g : g \in @}])))

\* ------------------------------------------------------------------ reads
get_users(c) == c.db.users

get_exercises(c) == c.db.exercises

\* SELECT user_id, average_grade, attempt_count, last_attempt FROM
\* user_progress WHERE user_id = ?; fetchone(): the results the call can
\* return, None when no row matches, else one of the matching rows
get_user_progress(c, user_id) ==
    LET rows == {p \in c.db.user_progress : p.user_id = user_id}
    IN IF rows = {} THEN {None}
       ELSE {Some(<<p.user_id, p.average_grade, p.attempt_count, p.last_attempt>>) : p \in rows}

\* FROM grades JOIN exercises ON grades.exercise_id = exercises.id
\* WHERE grades.user_id = ?: the grade rows of the user that have an exercise
JoinedGrades(d, user_id) ==
    {g \in d.grades : g.user_id = user_id /\ \E e \in d.exercises : e.id = g.exercise_id}

\* SELECT exercises.name, grades.grade, grades.time_attempt of a joined row
GradeEntry(d, g) ==
    LET e == CHOOSE x \in d.exercises : x.id = g.exercise_id
    IN <<e.name, g.grade, g.time_attempt>>

\* a may come before b under ORDER BY time_attempt DESC (desc) or ASC
MayPrecede(a, b, desc) ==
    IF desc THEN a.time_attempt >= b.time_attempt ELSE a.time_attempt <= b.time_attempt

\* the sequences made by putting row x into the ordered sequence s at a
\* place the order allows (rows with equal keys may come in either order)
InsertOrdered(x, s, desc) ==
    {SubSeq(s, 1, i) \o <<x>> \o SubSeq(s, i + 1, Len(s)) :
        i \in {j \in 0..Len(s) : /\ \A k \in 1..j : MayPrecede(s[k], x, desc)
                                 /\ \A k \in (j + 1)..Len(s) : MayPrecede(x, s[k], desc)}}

\* ORDER BY time_attempt: the orders the sort can return the rows in
RECURSIVE OrderByTimeAttempt(_, _)
OrderByTimeAttempt(rows, desc) ==
    IF rows = {} THEN {<<>>}
    ELSE LET x == CHOOSE r \in rows : TRUE
         IN UNION {InsertOrdered(x, s, desc) : s \in OrderByTimeAttempt(rows \ {x}, desc)}

\* get_grades_of_user with ORDER BY grades.time_attempt ASC
get_grades_of_user_asc(c, user_id) ==
    {[i \in 1..Len(s) |-> GradeEntry(c.db, s[i])] :
        s \in OrderByTimeAttempt(JoinedGrades(c.db, user_id), FALSE)}

\* the lists get_grades_of_user can return
get_grades_of_user(c, user_id) ==
    {[i \in 1..Len(s) |-> GradeEntry(c.db, s[i])] :
        s \in OrderByTimeAttempt(JoinedGrades(c.db, user_id), TRUE)}

\* ---------------------------------------------------------------- state
\* connection: the one connection the operations are called on
\* now:        the clock (seconds)
\* last:       the most recent call: operation, arguments, error printed
\* hist:       per (user, exercise), the grades passed to the successful
\*             add_grade calls since the pair last had no progress row
\* edited:     the (user, exercise) pairs of which a grade row has been
\*             deleted or overwritten, or the progress row deleted
\* calls:      the number of calls made so far
\* callers:    for each caller running add_grade on a connection of its own,
\*             the step it has reached and the locals of its call
VARIABLES connection, now, last, hist, edited, calls, callers

vars == <<connection, now, last, hist, edited, calls, callers>>

Pairs == UserIds \X ExerciseIds

Callers == {"A", "B"}

\* a caller that has not called add_grade yet
IdleCaller == [pc |-> "idle", user_id |-> 0, exercise_id |-> 0, grade |-> None,
               grade_id |-> 0, current_progress |-> None, in_transaction |-> FALSE]

NoCall == [op |-> "create_tables", user_id |-> 0, exercise_id |-> 0, grade_id |-> 0,
           name |-> None, description |-> None, grade |-> None, err |-> FALSE]

GradesOf(d, user_id, exercise_id) ==
    {g \in d.grades : g.user_id = user_id /\ g.exercise_id = exercise_id}

ProgressOf(d, user_id, exercise_id) ==
    {p \in d.user_progress : p.user_id = user_id /\ p.exercise_id = exercise_id}

\* the pairs whose grade rows differ between d and d2 or whose progress row
\* is in d and not in d2
Disturbed(d, d2) ==
    {pr \in Pairs : \/ GradesOf(d, pr[1], pr[2]) # GradesOf(d2, pr[1], pr[2])
                    \/ ProgressOf(d, pr[1], pr[2]) \ d2.user_progress # {}}

Init ==
    /\ connection = create_connection
    /\ now = 0
    /\ last = NoCall
    /\ hist = [pr \in Pairs |-> <<>>]
    /\ edited = {}
    /\ calls = 0
    /\ callers = [self \in Callers |-> IdleCaller]

Tick ==
    /\ now < MaxTime
    /\ now' = now + 1
    /\ last' = [NoCall EXCEPT !.op = "clock"]
    /\ UNCHANGED <<connection, hist, edited, calls, callers>>

\* a call other than add_grade: r is the handler's result
Finish(r, call) ==
    /\ calls' = calls + 1
    /\ connection' = r.c
    /\ last' = [call EXCEPT !.err = r.err]
    /\ hist' = [pr \in Pairs |->
                  IF ProgressOf(r.c.db, pr[1], pr[2]) = {} THEN <<>> ELSE hist[pr]]
    /\ edited' = edited \cup Disturbed(connection.db, r.c.db)
    /\ UNCHANGED <<now, callers>>

CallAddUser ==
    \E name \in UserNames :
        /\ calls < MaxCalls
        /\ connection.db.seq.users < MaxUsers
        /\ Finish(add_user(connection, name),
                  [NoCall EXCEPT !.op = "add_user", !.name = name])

CallAddExercise ==
    \E name \in ExerciseNames, description \in ExerciseDescriptions :
        /\ calls < MaxCalls
        /\ connection.db.seq.exercises < MaxExercises
        /\ Finish(add_exercise(connection, name, description),
                  [NoCall EXCEPT !.op = "add_exercise", !.name = name,
                                 !.description = description])

\* a call of add_grade at time now whose progress timestamp is date2
FinishAddGrade(user_id, exercise_id, grade, date2) ==
    /\ calls' = calls + 1
    /\ date2 \in {now, now + 1}
    /\ LET r == add_grade(connection, user_id, exercise_id, grade, now, date2) IN
        /\ connection' = r.c
        /\ last' = [NoCall EXCEPT !.op = "add_grade", !.user_id = user_id,
                                  !.exercise_id = exercise_id, !.grade = grade,
                                  !.err = r.err]
        /\ hist' = IF r.err THEN hist
                   ELSE [hist EXCEPT ![<<user_id, exercise_id>>] = Append(@, grade[1])]
        /\ now' = IF r.c.db.grades = connection.db.grades THEN now ELSE date2
    /\ UNCHANGED <<edited, callers>>

CallAddGrade ==
    \E user_id \in UserIds, exercise_id \in ExerciseIds,
       grade \in GradeValues(connection.db.seq.grades + 1), date2 \in Times :
        /\ connection.db.seq.grades < MaxGrades
        /\ calls < MaxCalls
        /\ FinishAddGrade(user_id, exercise_id, grade, date2)

CallRemoveUser ==
    \E user_id \in UserIds :
        /\ calls < MaxCalls
        /\ Finish(remove_user(connection, user_id),
                  [NoCall EXCEPT !.op = "remove_user", !.user_id = user_id])

CallRemoveExercise ==
    \E exercise_id \in ExerciseIds :
        /\ calls < MaxCalls
        /\ Finish(remove_exercise(connection, exercise_id),
                  [NoCall EXCEPT !.op = "remove_exercise", !.exercise_id = exercise_id])

CallRemoveGrade ==
    \E grade_id \in GradeIds :
        /\ calls < MaxCalls
        /\ Finish(remove_grade(connection, grade_id),
                  [NoCall EXCEPT !.op = "remove_grade", !.grade_id = grade_id])

CallRemoveUserProgress ==
    \E user_id \in UserIds :
        /\ calls < MaxCalls
        /\ Finish(remove_user_progress(connection, user_id),
                  [NoCall EXCEPT !.op = "remove_user_progress", !.user_id = user_id])

CallUpdateUser ==
    \E user_id \in UserIds, name \in NewUserNames :
        /\ calls < MaxCalls
        /\ Finish(update_user(connection, name, user_id),
                  [NoCall EXCEPT !.op = "update_user", !.user_id = user_id, !.name = name])

CallUpdateExercise ==
    \E exercise_id \in ExerciseIds, name \in NewExerciseNames,
       description \in NewExerciseDescriptions :
        /\ calls < MaxCalls
        /\ Finish(update_exercise(connection, exercise_id, name, description),
                  [NoCall EXCEPT !.op = "update_exercise", !.exercise_id = exercise_id,
                                 !.name = name, !.description = description])

CallUpdateGrades ==
    \E grade_id \in GradeIds, grade \in NewGradeValues :
        /\ calls < MaxCalls
        /\ Finish(update_grades(connection, grade_id, grade),
                  [NoCall EXCEPT !.op = "update_grades", !.grade_id = grade_id,
                                 !.grade = grade])

Next ==
    \/ Tick
    \/ CallAddUser
    \/ CallAddExercise
    \/ CallAddGrade
    \/ CallRemoveUser
    \/ CallRemoveExercise
    \/ CallRemoveGrade
    \/ CallRemoveUserProgress
    \/ CallUpdateUser
    \/ CallUpdateExercise
    \/ CallUpdateGrades

Spec == Init /\ [][Next]_vars

\* ------------------------------------------------------------ the script
\* The statements of the __main__ block, one call each; calls is the number
\* of statements already run. The four grades are drawn from the values the
\* script uses, and the clock may advance between statements.
DemoLength == 10

DemoGradeValues == {Some(DemoGrades[i]) : i \in 1..Len(DemoGrades)}

DemoAddUser ==
    /\ calls = 0
    /\ Finish(add_user(connection, Some("John")),
              [NoCall EXCEPT !.op = "add_user", !.name = Some("John")])

DemoAddExercise ==
    /\ calls = 1
    /\ Finish(add_exercise(connection, Some("Test"), Some("Testing insertion")),
              [NoCall EXCEPT !.op = "add_exercise", !.name = Some("Test"),
                             !.description = Some("Testing insertion")])

DemoAddGrade ==
    \E grade \in DemoGradeValues, date2 \in Times :
        /\ calls \in 2..5
        /\ FinishAddGrade(1, 1, grade, date2)

DemoRemoveGrade ==
    /\ calls = 6
    /\ Finish(remove_grade(connection, 1), [NoCall EXCEPT !.op = "remove_grade", !.grade_id = 1])

DemoRemoveUserProgress ==
    /\ calls = 7
    /\ Finish(remove_user_progress(connection, 1),
              [NoCall EXCEPT !.op = "remove_user_progress", !.user_id = 1])

DemoRemoveExercise ==
    /\ calls = 8
    /\ Finish(remove_exercise(connection, 1),
              [NoCall EXCEPT !.op = "remove_exercise", !.exercise_id = 1])

DemoRemoveUser ==
    /\ calls = 9
    /\ Finish(remove_user(connection, 1), [NoCall EXCEPT !.op = "remove_user", !.user_id = 1])

NextDemo ==
    \/ Tick
    \/ DemoAddUser
    \/ DemoAddExercise
    \/ DemoAddGrade
    \/ DemoRemoveGrade
    \/ DemoRemoveUserProgress
    \/ DemoRemoveExercise
    \/ DemoRemoveUser

SpecDemo == Init /\ [][NextDemo]_vars

\* ------------------------------------------------- add_grade step by step
\* Callers run add_grade(u, e, g) for one and the same pair, each on a
\* connection of its own to the same database file and all within one second
\* of the clock, one statement group at a time: the grade row is inserted
\* and committed (lines 112-116), the progress row is read (336-338), the
\* progress row is written and committed (340-349). The connection of the
\* earlier calls sets the store up before any caller starts. A caller reads
\* and writes what is committed; a statement that fails leaves a transaction
\* open on its connection, and while a connection has one open the writes of
\* the other connections fail with "database is locked".
NoCallerStarted == \A self \in Callers : callers[self].pc = "idle"

Locked(self) ==
    \/ connection.in_transaction
    \/ \E other \in Callers \ {self} : callers[other].in_transaction

\* the caller's connection before a statement: it sees what is committed
CallerConnection(self) ==
    [db |-> connection.disk, disk |-> connection.disk,
     in_transaction |-> callers[self].in_transaction]

\* the store after a caller's connection has committed c
Committed(c) == [connection EXCEPT !.db = c.disk, !.disk = c.disk]

StepCall(self, op) ==
    [NoCall EXCEPT !.op = op, !.user_id = callers[self].user_id,
                   !.exercise_id = callers[self].exercise_id,
                   !.grade = callers[self].grade]

\* add_grade, lines 112-116 (and 118-119 when the statement fails)
StepInsertGrade(self) ==
    \E user_id \in UserIds, exercise_id \in ExerciseIds,
       grade \in GradeValues(connection.disk.seq.grades + 1) :
        /\ callers[self].pc = "idle"
        /\ connection.disk.seq.grades < MaxGrades
        /\ \A other \in Callers \ {self} :
            callers[other].pc # "idle"
                => user_id = callers[other].user_id /\ exercise_id = callers[other].exercise_id
        /\ LET r == IF Locked(self) THEN Error(Begin(CallerConnection(self)))
                    ELSE insert_grade(CallerConnection(self), user_id, exercise_id, grade, now)
               me == [callers[self] EXCEPT !.user_id = user_id, !.exercise_id = exercise_id,
                                           !.grade = grade,
                                           !.in_transaction = r.c.in_transaction]
           IN /\ callers' = [callers EXCEPT ![self] =
                               IF r.err THEN [me EXCEPT !.pc = "failed"]
                               ELSE [me EXCEPT !.pc = "inserted",
                                               !.grade_id = r.c.disk.seq.grades]]
              /\ connection' = IF r.err THEN connection ELSE Committed(r.c)
              /\ last' = [NoCall EXCEPT !.op = "insert_grade", !.user_id = user_id,
                                        !.exercise_id = exercise_id, !.grade = grade,
                                        !.err = r.err]
        /\ UNCHANGED <<now, hist, edited, calls>>

\* update_user_progression, lines 336-338
StepReadProgress(self) ==
    /\ callers[self].pc = "inserted"
    /\ callers' = [callers EXCEPT ![self].pc = "read",
                                  ![self].current_progress =
                                      SelectProgress(connection.disk, callers[self].user_id,
                                                     callers[self].exercise_id)]
    /\ last' = StepCall(self, "read_progress")
    /\ UNCHANGED <<connection, now, hist, edited, calls>>

\* update_user_progression, lines 340-349 (and 350-351 when it fails)
StepWriteProgress(self) ==
    /\ callers[self].pc = "read"
    /\ LET me == callers[self]
           r == IF Locked(self) THEN Error(Begin(CallerConnection(self)))
                ELSE WriteProgress(CallerConnection(self), me.current_progress,
                                   me.user_id, me.exercise_id, me.grade[1], now)
       IN /\ callers' = [callers EXCEPT ![self].pc = IF r.err THEN "write_failed" ELSE "done",
                                        ![self].in_transaction = r.c.in_transaction]
          /\ connection' = IF r.err THEN connection ELSE Committed(r.c)
          /\ last' = [StepCall(self, "write_progress") EXCEPT !.err = r.err]
    /\ UNCHANGED <<now, hist, edited, calls>>

\* the caller's execution stops after the grade row is committed and before
\* the progress row is written
Stop(self) ==
    /\ callers[self].pc \in {"inserted", "read"}
    /\ callers' = [callers EXCEPT ![self].pc = "stopped"]
    /\ last' = StepCall(self, "stop")
    /\ UNCHANGED <<connection, now, hist, edited, calls>>

SetupAddUser == NoCallerStarted /\ CallAddUser

SetupAddExercise == NoCallerStarted /\ CallAddExercise

SetupAddGrade == NoCallerStarted /\ CallAddGrade

NextSteps ==
    \/ SetupAddUser
    \/ SetupAddExercise
    \/ SetupAddGrade
    \/ \E self \in Callers : StepInsertGrade(self)
    \/ \E self \in Callers : StepReadProgress(self)
    \/ \E self \in Callers : StepWriteProgress(self)
    \/ \E self \in Callers : Stop(self)

SpecSteps == Init /\ [][NextSteps]_vars

\* ---------------------------------------------------------------- claims
db == connection.db

UserExists(d, user_id) == \E u \in d.users : u.id = user_id

ExerciseExists(d, exercise_id) == \E e \in d.exercises : e.id = exercise_id

\* avg * k as a fraction
Scaled(avg, k) == Frac(avg.num * k, avg.den)

\* average_grade * attempt_count = sum of the grade rows stored for the pair
MatchesGradeRows(d, p) ==
    Scaled(p.average_grade, p.attempt_count)
        = Frac(SumGrades(GradesOf(d, p.user_id, p.exercise_id)), 1)

\* C1: after N >= 1 successful add_grade(u, e, g_i) calls made since (u, e)
\* had no progress row, the progress row of (u, e) has attempt_count = N and
\* average_grade = (g1 + ... + gN) / N.
C1_RunningMean ==
    \A pr \in Pairs :
        hist[pr] # <<>> =>
            /\ ProgressOf(db, pr[1], pr[2]) # {}
            /\ \A p \in ProgressOf(db, pr[1], pr[2]) :
                /\ p.attempt_count = Len(hist[pr])
                /\ p.average_grade = Frac(SumSeq(hist[pr]), Len(hist[pr]))

C1_Witness ==
    /\ last.op = "add_grade" /\ ~last.err
    /\ Len(hist[<<last.user_id, last.exercise_id>>]) >= 3

\* C2: add_grade(u, e, g) with u not an existing user or e not an existing
\* exercise adds no grade row and leaves the progress table unchanged.
C2_RejectedGradeNoProgress ==
    [][(/\ last'.op = "add_grade"
        /\ ~(UserExists(db, last'.user_id) /\ ExerciseExists(db, last'.exercise_id)))
        => /\ connection'.db.grades = db.grades
           /\ connection'.db.user_progress = db.user_progress]_vars

C2_Witness ==
    /\ last.op = "add_grade" /\ last.err /\ last.grade # None
    /\ ~UserExists(db, last.user_id) /\ ExerciseExists(db, last.exercise_id)
    /\ db.user_progress # {}

\* C3 as stated: in every reachable state every progress row (u, e) has
\* average_grade * attempt_count = sum of the grade rows stored for (u, e).
C3_Original == \A p \in db.user_progress : MatchesGradeRows(db, p)

\* C3 amended: the equation holds for every progress row (u, e) of whose pair
\* no grade row has been deleted or changed and no progress row deleted.
C3_UneditedPairsMatch ==
    \A p \in db.user_progress :
        <<p.user_id, p.exercise_id>> \notin edited => MatchesGradeRows(db, p)

\* a pair with two or more grades of which nothing has been deleted or changed
C3_Witness ==
    \E p \in db.user_progress :
        /\ <<p.user_id, p.exercise_id>> \notin edited
        /\ p.attempt_count >= 2
        /\ Cardinality(GradesOf(db, p.user_id, p.exercise_id)) = p.attempt_count

\* C4: after remove_user(u) no grade row of u is visible, and every progress
\* row of u that existed before the call is still there, unchanged.
C4_RemoveUserKeepsProgress ==
    [][last'.op = "remove_user"
        => /\ ~ \E g \in connection'.db.grades : g.user_id = last'.user_id
           /\ \A p \in db.user_progress :
                p.user_id = last'.user_id => p \in connection'.db.user_progress]_vars

\* remove_user(u) has just deleted grade rows of u while u has progress rows
C4_Witness ==
    /\ last.op = "remove_user"
    /\ \E p \in db.user_progress : p.user_id = last.user_id
    /\ \E g \in connection.disk.grades : g.user_id = last.user_id
    /\ ~ \E g \in db.grades : g.user_id = last.user_id

\* C5: after remove_user(u) of an existing user u the users table has no row
\* with id u, whether or not progress rows of u exist.
C5_RemoveUserRemovesUser ==
    [][(last'.op = "remove_user" /\ UserExists(db, last'.user_id))
        => ~UserExists(connection'.db, last'.user_id)]_vars

\* C6: after remove_exercise(e) no grade row of e remains, the exercise row e
\* is gone, and the grade rows of other exercises are unchanged.
C6_RemoveExerciseRemovesExercise ==
    [][last'.op = "remove_exercise"
        => /\ ~ \E g \in connection'.db.grades : g.exercise_id = last'.exercise_id
           /\ ~ExerciseExists(connection'.db, last'.exercise_id)
           /\ {g \in connection'.db.grades : g.exercise_id # last'.exercise_id}
                = {g \in db.grades : g.exercise_id # last'.exercise_id}]_vars

\* C7: for an existing exercise e, update_exercise(e, name=n) with non-empty n
\* leaves e with stored name n, and update_exercise(e, description=d) with
\* non-empty d leaves e with stored description d.
C7_UpdateExerciseStores ==
    [][(last'.op = "update_exercise" /\ ExerciseExists(db, last'.exercise_id))
        => \A e \in connection'.db.exercises :
            e.id = last'.exercise_id =>
                /\ Truthy(last'.name) => e.name = last'.name[1]
                /\ Truthy(last'.description) => e.description = last'.description[1]]_vars

\* C8: update_exercise with only name supplied leaves the description of that
\* exercise unchanged, with only description supplied leaves its name
\* unchanged; in both cases every other exercise row and the users, grades
\* and progress tables are unchanged.
C8_UpdateExerciseFrame ==
    [][(/\ last'.op = "update_exercise"
        /\ (last'.name = None) # (last'.description = None))
        => /\ \A e \in db.exercises :
                IF e.id = last'.exercise_id
                THEN \E e2 \in connection'.db.exercises :
                        /\ e2.id = e.id
                        /\ last'.description = None => e2.description = e.description
                        /\ last'.name = None => e2.name = e.name
                ELSE e \in connection'.db.exercises
           /\ \A e2 \in connection'.db.exercises :
                e2.id # last'.exercise_id => e2 \in db.exercises
           /\ connection'.db.users = db.users
           /\ connection'.db.grades = db.grades
           /\ connection'.db.user_progress = db.user_progress]_vars

C8_Witness ==
    /\ last.op = "update_exercise"
    /\ Truthy(last.name) /\ last.description = None
    /\ ExerciseExists(db, last.exercise_id)
    /\ \E e \in db.exercises : e.id # last.exercise_id
    /\ db.grades # {}

\* C9: a write operation that hits a storage error is a no-op: the four
\* tables read on the connection afterwards are the same as before the call.
C9_ErrorIsNoOp ==
    [][last'.err
        => /\ connection'.db.users = db.users
           /\ connection'.db.exercises = db.exercises
           /\ connection'.db.grades = db.grades
           /\ connection'.db.user_progress = db.user_progress]_vars

\* C10: remove_grade(g) and update_grades(g, v) leave every progress row
\* unchanged and touch no grade row other than g.
C10_GradeEditFrame ==
    [][last'.op \in {"remove_grade", "update_grades"}
        => /\ connection'.db.user_progress = db.user_progress
           /\ {g \in connection'.db.grades : g.id # last'.grade_id}
                = {g \in db.grades : g.id # last'.grade_id}]_vars

\* a grade row has just been deleted or overwritten: its pair's progress row
\* no longer matches the stored grade rows, and other grade rows are stored
C10_Witness ==
    /\ last.op \in {"remove_grade", "update_grades"} /\ ~last.err
    /\ \E p \in db.user_progress : ~MatchesGradeRows(db, p)
    /\ ~ \E g \in db.grades : g.id = last.grade_id /\ last.op = "remove_grade"
    /\ \E g \in db.grades : g.id # last.grade_id

\* C11: remove_user_progress(u) deletes every progress row of u, leaves the
\* progress rows of other users and the users, exercises and grades tables
\* unchanged; afterwards get_user_progress(u) returns an absent result.
C11_RemoveUserProgressFrame ==
    [][last'.op = "remove_user_progress"
        => /\ ~ \E p \in connection'.db.user_progress : p.user_id = last'.user_id
           /\ {p \in connection'.db.user_progress : p.user_id # last'.user_id}
                = {p \in db.user_progress : p.user_id # last'.user_id}
           /\ connection'.db.users = db.users
           /\ connection'.db.exercises = db.exercises
           /\ connection'.db.grades = db.grades
           /\ get_user_progress(connection', last'.user_id) = {None}]_vars

\* remove_user_progress(u) has just deleted a progress row of u (its pair is
\* in edited and its grade rows are still stored) while another user has one
C11_Witness ==
    /\ last.op = "remove_user_progress"
    /\ \E pr \in edited : pr[1] = last.user_id /\ GradesOf(db, pr[1], pr[2]) # {}
    /\ \E p \in db.user_progress : p.user_id # last.user_id

\* C12: a successful add_grade(u, e, g) made when (u, e) has no progress row,
\* also when earlier grade rows of (u, e) are still stored, creates the
\* progress row of (u, e) with average_grade = g and attempt_count = 1.
C12_FirstGradeStartsAtOne ==
    [][(/\ last'.op = "add_grade" /\ ~last'.err
        /\ ProgressOf(db, last'.user_id, last'.exercise_id) = {})
        => /\ ProgressOf(connection'.db, last'.user_id, last'.exercise_id) # {}
           /\ \A p \in ProgressOf(connection'.db, last'.user_id, last'.exercise_id) :
                /\ p.average_grade = Frac(last'.grade[1], 1)
                /\ p.attempt_count = 1]_vars

\* add_grade has just created the progress row of a pair that already had
\* an earlier grade row
C12_Witness ==
    /\ last.op = "add_grade" /\ ~last.err
    /\ \E p \in ProgressOf(db, last.user_id, last.exercise_id) : p.attempt_count = 1
    /\ Cardinality(GradesOf(db, last.user_id, last.exercise_id)) >= 2

\* C14: get_grades_of_user(u) returns only entries of grade rows of u, in
\* non-increasing order of time_attempt.
C14_GradesNewestFirst ==
    \A u \in UserIds : \A res \in get_grades_of_user(connection, u) :
        /\ \A i \in 1..Len(res) :
            \E g \in db.grades : g.user_id = u /\ res[i] = GradeEntry(db, g)
        /\ Len(res) <= Cardinality({g \in db.grades : g.user_id = u})
        /\ \A i \in 1..(Len(res) - 1) : res[i][3] >= res[i + 1][3]

\* a user has grade rows of different attempt times, another user has a
\* grade row too
C14_Witness ==
    \E g1, g2, g3 \in db.grades :
        /\ g1.user_id = g2.user_id /\ g1.time_attempt < g2.time_attempt
        /\ g3.user_id # g1.user_id

\* C15: in every reachable state user_progress holds at most one row per
\* (user_id, exercise_id) pair.
C15_OneProgressRowPerPair ==
    \A pr \in Pairs : Cardinality(ProgressOf(db, pr[1], pr[2])) <= 1

\* add_grade has just succeeded on a pair that had a progress row: the pair
\* has a row of attempt_count 2 or more
C15_Witness ==
    /\ last.op = "add_grade" /\ ~last.err
    /\ \E p \in ProgressOf(db, last.user_id, last.exercise_id) : p.attempt_count >= 2

\* C17: in every reachable state every grade row and every progress row
\* names an existing user and an existing exercise, and get_grades_of_user
\* returns one entry for every grade row of the user (the join with
\* exercises drops none).
C17_ReferentialIntegrity ==
    /\ \A g \in db.grades :
        UserExists(db, g.user_id) /\ ExerciseExists(db, g.exercise_id)
    /\ \A p \in db.user_progress :
        UserExists(db, p.user_id) /\ ExerciseExists(db, p.exercise_id)
    /\ \A g \in connection.disk.grades :
        UserExists(connection.disk, g.user_id) /\ ExerciseExists(connection.disk, g.exercise_id)
    /\ \A p \in connection.disk.user_progress :
        UserExists(connection.disk, p.user_id) /\ ExerciseExists(connection.disk, p.exercise_id)
    /\ \A u \in UserIds : \A res \in get_grades_of_user(connection, u) :
        Len(res) = Cardinality({g \in db.grades : g.user_id = u})

\* remove_user has just been refused for a user who has a progress row
C17_Witness ==
    /\ last.op = "remove_user" /\ last.err
    /\ \E p \in db.user_progress : p.user_id = last.user_id
    /\ UserExists(db, last.user_id)

\* C13: when the script's ten calls have run from the empty store,
\* get_users, get_exercises and get_grades_of_user(1) return nothing,
\* get_user_progress(1) returns None, and all four tables are empty.
C13_DemoEndsEmpty ==
    calls = DemoLength =>
        /\ get_users(connection) = {}
        /\ get_exercises(connection) = {}
        /\ get_grades_of_user(connection, 1) = {<<>>}
        /\ get_user_progress(connection, 1) = {None}
        /\ \A t \in TableNames : db[t] = {} /\ connection.disk[t] = {}

\* the script has run to its end: four grade ids were given out and the last
\* call, remove_user, reported no error
C13_Witness ==
    /\ calls = DemoLength
    /\ last.op = "remove_user" /\ ~last.err
    /\ db.seq.grades = 4 /\ db.seq.users = 1 /\ db.seq.exercises = 1

\* the attempt_count stored for the pair, 0 when it has no progress row
AttemptCount(d, user_id, exercise_id) ==
    IF ProgressOf(d, user_id, exercise_id) = {} THEN 0
    ELSE (CHOOSE p \in ProgressOf(d, user_id, exercise_id) : TRUE).attempt_count

\* the grade row the caller inserted is committed
GradeStored(self) ==
    \E g \in connection.disk.grades :
        /\ g.id = callers[self].grade_id
        /\ g.user_id = callers[self].user_id
        /\ g.exercise_id = callers[self].exercise_id
        /\ g.grade = callers[self].grade[1]

\* the caller's call has ended, or has been stopped, after its grade row was
\* committed and without its progress write
Lagging(c) == c.pc \in {"stopped", "write_failed"}

\* C16: add_grade commits the grade row first and the progress row after
\* it: a caller that is past the first step has its grade row stored, and
\* when it stops between the steps or its progress write fails, that leaves
\* what is stored as it was, the grade row included, with the pair's
\* attempt_count below the number of its grade rows.
C16_GradeStoredBeforeProgress ==
    /\ [](\A self \in Callers :
            /\ callers[self].pc \in {"inserted", "read", "done", "stopped", "write_failed"}
                => GradeStored(self)
            /\ callers[self].pc \in {"inserted", "read", "stopped", "write_failed"}
                => AttemptCount(connection.disk, callers[self].user_id, callers[self].exercise_id)
                     < Cardinality(GradesOf(connection.disk, callers[self].user_id,
                                            callers[self].exercise_id)))
    /\ [][\A self \in Callers :
            (Lagging(callers'[self]) /\ ~Lagging(callers[self]))
                => connection'.disk = connection.disk]_vars

\* one caller was stopped between the two steps and another's progress write
\* was committed, or a progress write failed
C16_Witness ==
    \E self \in Callers :
        /\ Lagging(callers[self])
        /\ GradeStored(self)
        /\ \/ callers[self].pc = "write_failed"
           \/ \E other \in Callers \ {self} : callers[other].pc = "done"

\* both callers ran add_grade on the same pair and both calls have returned
\* after committing their grade rows
BothFinished ==
    /\ \A self \in Callers : callers[self].pc \in {"done", "write_failed"}
    /\ \A s1, s2 \in Callers :
        /\ callers[s1].user_id = callers[s2].user_id
        /\ callers[s1].exercise_id = callers[s2].exercise_id

\* the pair the callers ran add_grade on
CallersPair ==
    LET c == callers[CHOOSE self \in Callers : TRUE] IN <<c.user_id, c.exercise_id>>

\* some caller read the progress row after another had written it
ReadsDiffer ==
    \E s1, s2 \in Callers : callers[s1].current_progress # callers[s2].current_progress

\* C18 as stated: when both calls have finished, whatever the interleaving,
\* both progress writes were accepted, attempt_count has grown by 2 (from
\* the number of grade rows the pair had to the number it has now) and
\* average_grade is the mean of all the pair's grade rows.
C18_Original ==
    BothFinished =>
        LET u == CallersPair[1]
            e == CallersPair[2]
        IN /\ \A self \in Callers : callers[self].pc = "done"
           /\ AttemptCount(connection.disk, u, e)
                = Cardinality(GradesOf(connection.disk, u, e))
           /\ \A p \in ProgressOf(connection.disk, u, e) : MatchesGradeRows(connection.disk, p)

\* C18 (amended): before the callers start every pair's attempt_count is the
\* number of its grade rows. When both calls have finished both grade rows
\* are stored; attempt_count has grown by 2 and average_grade is the mean of
\* the pair's grade rows if one caller read the progress row after the other
\* had written it; if both read before either wrote, attempt_count has grown
\* by 1: with a progress row read, both writes are accepted and the later
\* overwrites the earlier, with none read, the later INSERT is rejected.
C18_SerialReadsCountBoth ==
    /\ NoCallerStarted =>
        \A pr \in Pairs : AttemptCount(connection.disk, pr[1], pr[2])
                            = Cardinality(GradesOf(connection.disk, pr[1], pr[2]))
    /\ BothFinished =>
        LET u == CallersPair[1]
            e == CallersPair[2]
            n == Cardinality(GradesOf(connection.disk, u, e))
            failed == {self \in Callers : callers[self].pc = "write_failed"}
        IN /\ \A self \in Callers : GradeStored(self)
           /\ Cardinality(ProgressOf(connection.disk, u, e)) = 1
           /\ IF ReadsDiffer
              THEN /\ failed = {}
                   /\ AttemptCount(connection.disk, u, e) = n
                   /\ \A p \in ProgressOf(connection.disk, u, e) :
                        MatchesGradeRows(connection.disk, p)
              ELSE /\ AttemptCount(connection.disk, u, e) = n - 1
                   /\ \A self \in Callers :
                        IF callers[self].current_progress = None
                        THEN Cardinality(failed) = 1
                        ELSE failed = {}

\* both calls have finished after both read the same existing progress row
C18_Witness ==
    /\ BothFinished
    /\ ~ReadsDiffer
    /\ \A self \in Callers : callers[self].current_progress # None
    /\ \E s1, s2 \in Callers : callers[s1].grade # callers[s2].grade
====
